---- MODULE Spec2Model ----
(***************************************************************************)
(* Model of generate_leads.py: the lead fixture generator.                 *)
(*                                                                         *)
(* Time is counted in whole days (proleptic Gregorian ordinals, day 1 =    *)
(* 0001-01-01, as datetime.toordinal); the time of day is abstracted, but  *)
(* a call may run across midnight, so two readings of datetime.now() in    *)
(* one call can differ by a day.  Faker values are abstracted to one       *)
(* non-empty string per kind.  The outcomes of the random module are the   *)
(* inputs of the model: a "tape" r names the outcome of every draw.        *)
(***************************************************************************)
EXTENDS Integers, Sequences, FiniteSets, TLC

VARIABLES
    pc,         \* position of the process
    argv,       \* the command-line argument, a sequence of characters
    num_leads,  \* args.num_leads / the num_leads parameter
    leads,      \* the list built by the comprehension of generate_leads_file
    clock,      \* datetime.now(), in days
    t_call,     \* the clock when generate_lead was last entered
    fs,         \* the file system: path -> [exists, data]
    fs0,        \* the file system when the process started
    fh,         \* the handle f of the with-block: "none", "open", "closed"
    stdout,     \* what print() has written
    stderr,     \* what has been reported on the error stream
    exit_code   \* the exit status, -1 while running

vars == <<pc, argv, num_leads, leads, clock, t_call, fs, fs0, fh, stdout, stderr, exit_code>>

---------------------------------------------------------------------------
(* Bounds of the model *)

MaxLeads == 2       \* largest count given on the command line
MaxArgLen == 2      \* longest command-line argument, in characters
Near == 0           \* day offsets drawn next to each end of a randint range
MaxPick == 3        \* largest index outcome shared by the value-only choices
Today == 739923     \* a clock reading: 2026-11-03
LeapDay == 738945   \* a clock reading: 2024-02-29

---------------------------------------------------------------------------
(* Calendar: datetime's conversion between ordinals and (year, month, day) *)

IsLeap(y) == (y % 4 = 0) /\ ((y % 100 # 0) \/ (y % 400 = 0))

DaysInMonth(y, m) ==
    IF m = 2 THEN (IF IsLeap(y) THEN 29 ELSE 28)
    ELSE IF m \in {4, 6, 9, 11} THEN 30 ELSE 31

\* _DAYS_BEFORE_MONTH, and a day more after February of a leap year
DaysBeforeMonthTable == <<0, 31, 59, 90, 120, 151, 181, 212, 243, 273, 304, 334>>
DaysBeforeMonth(y, m) ==
    DaysBeforeMonthTable[m] + (IF m > 2 /\ IsLeap(y) THEN 1 ELSE 0)

DaysBeforeYear(y) ==
    LET p == y - 1 IN p * 365 + (p \div 4) - (p \div 100) + (p \div 400)

\* date(y, m, d).toordinal()
ymd2ord(t) == DaysBeforeYear(t[1]) + DaysBeforeMonth(t[1], t[2]) + t[3]

\* date.fromordinal(n) as <<year, month, day>>
ord2ymd(n) ==
    LET n0   == n - 1
        n400 == n0 \div 146097
        r400 == n0 % 146097
        n100 == r400 \div 36524
        r100 == r400 % 36524
        n4   == r100 \div 1461
        r4   == r100 % 1461
        n1   == r4 \div 365
        r1   == r4 % 365
        year == n400 * 400 + n100 * 100 + n4 * 4 + n1 + 1
        est  == (r1 + 50) \div 32
        m    == IF DaysBeforeMonth(year, est) > r1 THEN est - 1 ELSE est
    IN  IF n1 = 4 \/ n100 = 4
        THEN <<year - 1, 12, 31>>
        ELSE <<year, m, r1 - DaysBeforeMonth(year, m) + 1>>

\* datetime.isoformat(): the date part of the timestamp
isoformat(n) == ord2ymd(n)

\* datetime.strftime("%Y-%m-%d")
strftime(n) == ord2ymd(n)

---------------------------------------------------------------------------
(* The random module and Faker *)

\* random.choice(seq) when the index drawn is k
choice(seq, k) == seq[(k % Len(seq)) + 1]

\* fake.<kind>(): some non-empty string of that kind
fake(kind) == kind

\* The draws by index of one generate_lead call, and of one comment
ChoiceSites == {"gender", "source", "priority", "status", "doc_status"}
CommentSites == {"template", "interest", "level", "market", "channel", "response",
                 "product", "outcome", "meeting_type", "timeframe", "language",
                 "solution", "communication", "investment_type", "topic", "broker",
                 "experience"}

\* The calls of random.random() in one generate_lead call
UniformSites == {"oldEmail", "oldPhone", "client", "clientBroker", "clientNetwork",
                 "facebook", "twitter", "linkedin", "instagram", "telegram", "whatsapp"}

---------------------------------------------------------------------------
(* Sub-generators *)

generate_phone == "+" \o fake("msisdn")

\* random.random() > 0.3, the outcome u counted in tenths
social_fill(u) == u > 3

generate_social_media(r) ==
    [facebook  |-> IF social_fill(r.u["facebook"])  THEN fake("facebook.com/user_name") ELSE "",
     twitter   |-> IF social_fill(r.u["twitter"])   THEN fake("twitter.com/user_name") ELSE "",
     linkedin  |-> IF social_fill(r.u["linkedin"])  THEN fake("linkedin.com/in/user_name") ELSE "",
     instagram |-> IF social_fill(r.u["instagram"]) THEN fake("instagram.com/user_name") ELSE "",
     telegram  |-> IF social_fill(r.u["telegram"])  THEN fake("@user_name") ELSE "",
     whatsapp  |-> IF social_fill(r.u["whatsapp"])  THEN generate_phone ELSE ""]

generate_address ==
    [street |-> fake("street_address"), city |-> fake("city"), postalCode |-> fake("postcode")]

None == [none |-> TRUE]

status_choices_mut == <<"good", "ok", "pending", "rejected">>
status_choices == <<"good", "ok", "pending">>

image_url == "https://d.newsweek.com/en/full/1888025/gary-lee-holding-id-face.jpg"

generate_documents(lead_type, r) ==
    IF lead_type = "ftd"
    THEN [idFrontUrl        |-> image_url,
          idBackUrl         |-> image_url,
          selfieUrl         |-> image_url,
          residenceProofUrl |-> image_url,
          status            |-> choice(status_choices, r.k["doc_status"])]
    ELSE None

comment_templates ==
    << [text |-> "Initial contact made, {interest} in trading", fields |-> <<"interest">>],
       [text |-> "Client shows {level} knowledge about {market}", fields |-> <<"level", "market">>],
       [text |-> "Followed up via {channel}, {response}", fields |-> <<"channel", "response">>],
       [text |-> "Discussed {product} options, {outcome}", fields |-> <<"product", "outcome">>],
       [text |-> "Scheduled {meeting_type} for {timeframe}", fields |-> <<"meeting_type", "timeframe">>],
       [text |-> "{language} barrier noted, {solution} required", fields |-> <<"language", "solution">>],
       [text |-> "Client prefers {communication} for future contact", fields |-> <<"communication">>],
       [text |-> "Potential for {investment_type} investment identified", fields |-> <<"investment_type">>],
       [text |-> "Requires more information about {topic}", fields |-> <<"topic">>],
       [text |-> "Previous experience with {broker}, {experience}", fields |-> <<"broker", "experience">>] >>

vocabulary ==
    [interest        |-> <<"very interested", "somewhat interested", "showing interest", "highly interested">>,
     level           |-> <<"basic", "intermediate", "advanced", "limited">>,
     market          |-> <<"forex", "stocks", "crypto", "commodities", "indices">>,
     channel         |-> <<"email", "phone", "WhatsApp", "Telegram", "LinkedIn">>,
     response        |-> <<"positive response", "will consider options", "requested more info", "needs time to decide">>,
     product         |-> <<"CFD", "forex pairs", "commodity futures", "stock options">>,
     outcome         |-> <<"showing promise", "needs follow-up", "very enthusiastic", "considering proposal">>,
     meeting_type    |-> <<"video call", "phone consultation", "online demo", "strategy session">>,
     timeframe       |-> <<"next week", "tomorrow", "next month", "this Friday">>,
     language        |-> <<"English", "Spanish", "Mandarin", "Arabic">>,
     solution        |-> <<"translator", "simplified materials", "native speaker", "visual aids">>,
     communication   |-> <<"email", "phone", "messaging apps", "video calls">>,
     investment_type |-> <<"short-term", "long-term", "day trading", "swing trading">>,
     topic           |-> <<"trading platforms", "account types", "fee structure", "trading strategies">>,
     broker          |-> <<"previous broker", "local broker", "online platform", "traditional bank">>,
     experience      |-> <<"positive experience", "mixed results", "negative experience", "limited exposure">>]

\* template.format(...): the template with the words substituted for the
\* placeholders it names, kept as the template followed by those words
format(template, ck) ==
    <<template.text>> \o [j \in 1..Len(template.fields) |->
                             choice(vocabulary[template.fields[j]], ck[template.fields[j]])]

MaxComments == 3
CommentDays == 30

\* datetime.now() at the i-th reading of the clock in a call entered at `now`:
\* midnight passes just before reading number r.midnight
now_at(r, now, i) == IF i >= r.midnight THEN now + 1 ELSE now

comment_date_mut(r, now, i) == now_at(r, now, i) + r.comment_days[i]
comment_date(r, now, i) == now_at(r, now, i) - r.comment_days[i]

generate_comments(r, now) ==
    [i \in 1..r.num_comments |->
        [text      |-> format(choice(comment_templates, r.ck[i]["template"]), r.ck[i]),
         createdAt |-> isoformat(comment_date(r, now, i))]]

---------------------------------------------------------------------------
(* generate_lead *)

lead_types == <<"ftd", "filler", "cold", "live">>
genders == <<"male", "female", "not_defined">>
priorities == <<"low", "medium", "high">>
statuses == <<"active", "contacted", "converted", "inactive">>
sources == <<"website", "referral", "social_media", "direct">>

CreatedDays == 365
DobMinDays == 7300
DobMaxDays == 25550
SinMin == 100000000
SinMax == 999999999

is_assigned_mut(r) == r.u["client"] > 5
is_assigned(r) == FALSE

\* the lead = {...} literal; the clock readings 1..num_comments are the
\* comments', the next one is createdAt's
base_lead(r, now) ==
    [leadType      |-> choice(lead_types, r.lead_type),
     firstName     |-> fake("first_name"),
     lastName      |-> fake("last_name"),
     newEmail      |-> fake("email"),
     oldEmail      |-> IF r.u["oldEmail"] > 7 THEN fake("email") ELSE "",
     newPhone      |-> generate_phone,
     oldPhone      |-> IF r.u["oldPhone"] > 7 THEN generate_phone ELSE "",
     country       |-> fake("country"),
     isAssigned    |-> is_assigned(r),
     client        |-> IF r.u["client"] > 5 THEN fake("company") ELSE "",
     clientBroker  |-> IF r.u["clientBroker"] > 5 THEN fake("company") ELSE "",
     clientNetwork |-> IF r.u["clientNetwork"] > 5 THEN fake("company") ELSE "",
     gender        |-> choice(genders, r.k["gender"]),
     socialMedia   |-> generate_social_media(r),
     comments      |-> generate_comments(r, now),
     source        |-> choice(sources, r.k["source"]),
     priority      |-> choice(priorities, r.k["priority"]),
     status        |-> choice(statuses, r.k["status"]),
     createdAt     |-> isoformat(now_at(r, now, r.num_comments + 1) - r.created_days)]

\* lead_type in ["ftd", "filler"]
has_personal_mut(lead_type) == lead_type \in {"ftd", "filler", "live"}
has_personal(lead_type) == lead_type \in {"ftd", "filler"}

\* lead_type == "ftd"
has_documents(lead_type) == lead_type = "ftd"

\* the clock readings a call makes
clock_reads(r) ==
    r.num_comments + 1 + (IF has_personal(choice(lead_types, r.lead_type)) THEN 1 ELSE 0)

generate_lead(r, now) ==
    LET lead_type == choice(lead_types, r.lead_type)
        lead1 == base_lead(r, now)
        lead2 == IF has_personal(lead_type)
                 THEN [dob     |-> strftime(now_at(r, now, r.num_comments + 2) - r.dob_days),
                       address |-> generate_address] @@ lead1
                 ELSE lead1
    IN  IF has_documents(lead_type)
        THEN [documents |-> generate_documents("ftd", r),
              sin       |-> ToString(r.sin)] @@ lead2
        ELSE lead2

\* the clock when a call entered at `now` returns
now_after(r, now) == now_at(r, now, clock_reads(r))

---------------------------------------------------------------------------
(* The outcomes explored: tapes of draws *)

\* the ends of a randint(lo, hi) range and the Near values next to each
Ends(lo, hi) == {d \in lo..hi : d <= lo + Near \/ d >= hi - Near}

\* random.random() in tenths, and the index draws, tied to one outcome `pick`
Tape(lt, pick, n, days, created, dob, midnight) ==
    [lead_type    |-> lt,
     u            |-> [s \in UniformSites |-> (3 * pick) % 10],
     k            |-> [s \in ChoiceSites |-> pick],
     ck           |-> [i \in 1..n |-> [s \in CommentSites |-> pick + i]],
     num_comments |-> n,
     comment_days |-> days,
     created_days |-> created,
     dob_days     |-> dob,
     sin          |-> IF pick % 2 = 0 THEN SinMin ELSE SinMax,
     midnight     |-> midnight]

Clocks == {Today, LeapDay}

---------------------------------------------------------------------------
(* The command line: argparse with type=int *)

Digits == <<"0", "1", "2", "3", "4", "5", "6", "7", "8", "9">>
ArgChars == {Digits[i] : i \in 1..10} \cup {"-", "x", "."}

DigitValue(c) == (CHOOSE i \in 1..10 : Digits[i] = c) - 1

IsDigits(s) == Len(s) >= 1 /\ \A i \in 1..Len(s) : s[i] \in {Digits[j] : j \in 1..10}

\* the strings int() accepts among those over ArgChars: an optional sign, then digits
IsIntLiteral(s) ==
    /\ Len(s) >= 1
    /\ IsDigits(IF s[1] = "-" THEN Tail(s) ELSE s)

RECURSIVE DigitsValue(_)
DigitsValue(s) ==
    IF Len(s) = 0 THEN 0
    ELSE 10 * DigitsValue(SubSeq(s, 1, Len(s) - 1)) + DigitValue(s[Len(s)])

\* int(s)
int(s) == IF s[1] = "-" THEN 0 - DigitsValue(Tail(s)) ELSE DigitsValue(s)

default_num_leads == 50

\* parser.parse_args() on one argument: the bare "--" is the separator and
\* leaves the positional at its default; anything else that int() rejects,
\* or that looks like an option, is an error
parse_args(s) ==
    IF s = <<"-", "-">> THEN [ok |-> TRUE, num_leads |-> default_num_leads]
    ELSE IF IsIntLiteral(s) THEN [ok |-> TRUE, num_leads |-> int(s)]
    ELSE [ok |-> FALSE, num_leads |-> 0]

\* the arguments explored: those up to MaxArgLen characters that ask for at
\* most MaxLeads leads
Args ==
    { s \in UNION { [1..n -> ArgChars] : n \in 1..MaxArgLen } :
        parse_args(s).ok => parse_args(s).num_leads <= MaxLeads }

---------------------------------------------------------------------------
(* The file system and json.dump *)

output_file == "sample_leads.json"
other_file == "notes.txt"
Paths == {output_file, other_file}

LBracket == [t |-> "["]
RBracket == [t |-> "]"]
Comma == [t |-> ","]
Object(v) == [t |-> "object", v |-> v]
Junk == [t |-> "text"]

NoFile == [exists |-> FALSE, data |-> <<>>]
File(data) == [exists |-> TRUE, data |-> data]

InitialFS ==
    { [p \in Paths |-> IF p = output_file THEN f ELSE File(<<Junk>>)] :
        f \in {NoFile, File(<<Junk, Junk>>)} }

\* json.dump(leads, f, indent=2, ensure_ascii=False): the text written, as tokens
json_dump_mut(xs) ==
    IF Len(xs) = 0 THEN <<>>
    ELSE <<LBracket>>
         \o [j \in 1..(2 * Len(xs) - 1) |->
                IF j % 2 = 1 THEN Object(xs[(j + 1) \div 2]) ELSE Comma]
         \o <<RBracket>>
json_dump(xs) ==
    IF Len(xs) = 0 THEN <<LBracket, RBracket>>
    ELSE <<LBracket>>
         \o [j \in 1..(2 * Len(xs) - 1) |->
                IF j % 2 = 1 THEN Object(xs[(j + 1) \div 2]) ELSE Comma]
         \o <<RBracket>>

\* len(range(n))
range_len_mut(n) == IF n > 0 THEN n - 1 ELSE 0
range_len(n) == IF n > 0 THEN n ELSE 0

---------------------------------------------------------------------------
(* The run: __main__ and generate_leads_file *)

Init ==
    /\ pc = "main"
    /\ argv \in Args
    /\ num_leads = 0
    /\ leads = <<>>
    /\ clock \in Clocks
    /\ t_call = clock
    /\ fs \in InitialFS
    /\ fs0 = fs
    /\ fh = "none"
    /\ stdout = <<>>
    /\ stderr = <<>>
    /\ exit_code = -1

\* parser.parse_args(); on an error argparse reports it and exits with status 2
ParseArgs ==
    /\ pc = "main"
    /\ LET a == parse_args(argv) IN
         IF a.ok
         THEN /\ num_leads' = a.num_leads
              /\ pc' = "comprehension"
              /\ UNCHANGED <<stderr, exit_code>>
         ELSE /\ stderr' = Append(stderr, "error: argument num_leads: invalid int value")
              /\ exit_code' = 2
              /\ pc' = "exit"
              /\ UNCHANGED num_leads
    /\ UNCHANGED <<argv, leads, clock, t_call, fs, fs0, fh, stdout>>

\* one iteration of [generate_lead() for _ in range(num_leads)]; the runs
\* explored draw the lead type and whether midnight passes in the call
GenerateNext ==
    /\ pc = "comprehension"
    /\ Len(leads) < range_len(num_leads)
    /\ \E lt \in 0..3, midnight \in {1, 4} :
         LET r == Tape(lt, 0, 1, <<CommentDays>>, CreatedDays, DobMinDays, midnight) IN
           /\ leads' = Append(leads, generate_lead(r, clock))
           /\ clock' = now_after(r, clock)
    /\ t_call' = clock
    /\ UNCHANGED <<pc, argv, num_leads, fs, fs0, fh, stdout, stderr, exit_code>>

\* a sub-generator raises inside an iteration: the exception leaves
\* generate_leads_file and the interpreter exits with status 1
GenerateFails ==
    /\ pc = "comprehension"
    /\ Len(leads) < range_len(num_leads)
    /\ stderr' = Append(stderr, "Traceback: generate_lead")
    /\ exit_code' = 1
    /\ pc' = "exit"
    /\ UNCHANGED <<argv, num_leads, leads, clock, t_call, fs, fs0, fh, stdout>>

\* Open, moved in front of the comprehension
OpenBeforeGenerating ==
    /\ pc = "comprehension"
    /\ fh = "none"
    /\ fs' = [fs EXCEPT ![output_file] = [exists |-> TRUE, data |-> <<>>]]
    /\ fh' = "open"
    /\ pc' = IF Len(leads) = range_len(num_leads) THEN "dump" ELSE pc
    /\ UNCHANGED <<argv, num_leads, leads, clock, t_call, fs0, stdout, stderr, exit_code>>

\* Open, with mode 'a' in place of 'w'
OpenAppending ==
    /\ pc = "comprehension"
    /\ Len(leads) = range_len(num_leads)
    /\ fs' = [fs EXCEPT ![output_file] = [exists |-> TRUE, data |-> @.data]]
    /\ fh' = "open"
    /\ pc' = "dump"
    /\ UNCHANGED <<argv, num_leads, leads, clock, t_call, fs0, stdout, stderr, exit_code>>

\* open(output_file, 'w', encoding='utf-8'): creates or truncates the file
Open ==
    /\ pc = "comprehension"
    /\ Len(leads) = range_len(num_leads)
    /\ fs' = [fs EXCEPT ![output_file] = File(<<>>)]
    /\ fh' = "open"
    /\ pc' = "dump"
    /\ UNCHANGED <<argv, num_leads, leads, clock, t_call, fs0, stdout, stderr, exit_code>>

\* open() raises OSError: the path is not writable
OpenFails ==
    /\ pc = "comprehension"
    /\ Len(leads) = range_len(num_leads)
    /\ stderr' = Append(stderr, "Traceback: OSError")
    /\ exit_code' = 1
    /\ pc' = "exit"
    /\ UNCHANGED <<argv, num_leads, leads, clock, t_call, fs, fs0, fh, stdout>>

\* json.dump(leads, f, ...) writes the whole document
Dump ==
    /\ pc = "dump"
    /\ fs' = [fs EXCEPT ![output_file].data = @ \o json_dump(leads)]
    /\ pc' = "close"
    /\ UNCHANGED <<argv, num_leads, leads, clock, t_call, fs0, fh, stdout, stderr, exit_code>>

\* a write raises OSError part-way: a prefix of the document is on disk,
\* the with-block closes the handle and the exception leaves
DumpFails ==
    /\ pc = "dump"
    /\ \E n \in 0..(Len(json_dump(leads)) - 1) :
         fs' = [fs EXCEPT ![output_file].data = @ \o SubSeq(json_dump(leads), 1, n)]
    /\ fh' = "closed"
    /\ stderr' = Append(stderr, "Traceback: OSError")
    /\ exit_code' = 1
    /\ pc' = "exit"
    /\ UNCHANGED <<argv, num_leads, leads, clock, t_call, fs0, stdout>>

\* the end of the with-block closes f
Close ==
    /\ pc = "close"
    /\ fh' = "closed"
    /\ pc' = "print"
    /\ UNCHANGED <<argv, num_leads, leads, clock, t_call, fs, fs0, stdout, stderr, exit_code>>

\* print(f"Generated {num_leads} leads and saved to {output_file}")
PrintSummary ==
    /\ pc = "print"
    /\ stdout' = Append(stdout, [generated |-> num_leads, saved_to |-> output_file])
    /\ pc' = "return"
    /\ UNCHANGED <<argv, num_leads, leads, clock, t_call, fs, fs0, fh, stderr, exit_code>>

\* generate_leads_file returns and the script ends
Exit ==
    /\ pc = "return"
    /\ exit_code' = 0
    /\ pc' = "exit"
    /\ UNCHANGED <<argv, num_leads, leads, clock, t_call, fs, fs0, fh, stdout, stderr>>

Next ==
    \/ ParseArgs
    \/ GenerateNext
    \/ GenerateFails
    \/ Open
    \/ OpenFails
    \/ Dump
    \/ DumpFails
    \/ Close
    \/ PrintSummary
    \/ Exit

Spec == Init /\ [][Next]_vars

---------------------------------------------------------------------------
(* A single call of generate_lead by a caller of the library *)

InitLead ==
    /\ pc = "library"
    /\ argv = <<>>
    /\ num_leads = 1
    /\ leads = <<>>
    /\ clock \in Clocks
    /\ t_call = clock
    /\ fs = [p \in Paths |-> NoFile]
    /\ fs0 = fs
    /\ fh = "none"
    /\ stdout = <<>>
    /\ stderr = <<>>
    /\ exit_code = -1

\* the call, on every tape of outcomes within the bounds
CallGenerateLead ==
    /\ pc = "library"
    /\ \E lt \in 0..3, pick \in 0..MaxPick, n \in 0..MaxComments :
         \E days \in [1..n -> Ends(0, CommentDays)],
            created \in Ends(0, CreatedDays),
            dob \in Ends(DobMinDays, DobMaxDays),
            midnight \in 1..(n + 3) :
           LET r == Tape(lt, pick, n, days, created, dob, midnight) IN
             /\ leads' = <<generate_lead(r, clock)>>
             /\ clock' = now_after(r, clock)
    /\ t_call' = clock
    /\ pc' = "returned"
    /\ UNCHANGED <<argv, num_leads, fs, fs0, fh, stdout, stderr, exit_code>>

NextLead == CallGenerateLead

SpecLead == InitLead /\ [][NextLead]_vars

---------------------------------------------------------------------------
(* Reading the results back *)

\* json.load of a file's text: the array, when the text is one
json_load(data) ==
    LET n     == Len(data)
        inner == SubSeq(data, 2, n - 1)
        ok    == /\ n >= 2
                 /\ data[1].t = "["
                 /\ data[n].t = "]"
                 /\ \/ n = 2
                    \/ /\ Len(inner) % 2 = 1
                       /\ \A j \in 1..Len(inner) :
                            inner[j].t = (IF j % 2 = 1 THEN "object" ELSE ",")
    IN  [ok    |-> ok,
         value |-> IF ok THEN [i \in 1..((n - 1) \div 2) |-> inner[2 * i - 1].v] ELSE <<>>]

Contains(seq, x) == \E i \in 1..Len(seq) : seq[i] = x

\* the records generate_lead has returned
Produced == {leads[i] : i \in 1..Len(leads)}

\* the record the last call of generate_lead returned
LastLead == leads[Len(leads)]

\* date d is at least y years before date t / at most y years before date t
\* (dates as <<year, month, day>>, compared as the calendar orders them)
DateLeq(a, b) ==
    \/ a[1] < b[1]
    \/ a[1] = b[1] /\ a[2] < b[2]
    \/ a[1] = b[1] /\ a[2] = b[2] /\ a[3] <= b[3]
AtLeastYearsBefore(d, y, t) == DateLeq(<<d[1] + y, d[2], d[3]>>, t)
AtMostYearsBefore(d, y, t) == DateLeq(t, <<d[1] + y, d[2], d[3]>>)

---------------------------------------------------------------------------
(* Properties of the records *)

\* C1: in every record generate_lead returns, dob and address are present
\* exactly when leadType is ftd or filler, and documents and sin are present
\* exactly when leadType is ftd.
C1_OptionalGroups ==
    \A l \in Produced :
      /\ ("dob" \in DOMAIN l) <=> (l.leadType \in {"ftd", "filler"})
      /\ ("address" \in DOMAIN l) <=> (l.leadType \in {"ftd", "filler"})
      /\ ("documents" \in DOMAIN l) <=> (l.leadType = "ftd")
      /\ ("sin" \in DOMAIN l) <=> (l.leadType = "ftd")

C1_Witness ==
    /\ pc = "returned"
    /\ LastLead.leadType = "filler"
    /\ {"dob", "address"} \subseteq DOMAIN LastLead
    /\ {"documents", "sin"} \cap DOMAIN LastLead = {}

\* C2: every ftd record has dob, address, documents and sin; documents is an
\* object (not None) with exactly the four URLs and a status, and the status
\* is good, ok or pending.
C2_FtdComplete ==
    \A l \in Produced :
      l.leadType = "ftd" =>
        /\ {"dob", "address", "documents", "sin"} \subseteq DOMAIN l
        /\ DOMAIN l.documents =
             {"idFrontUrl", "idBackUrl", "selfieUrl", "residenceProofUrl", "status"}
        /\ l.documents.status \in {"good", "ok", "pending"}

C2_Witness ==
    /\ pc = "returned"
    /\ LastLead.leadType = "ftd"
    /\ LastLead.documents.status = "pending"

\* C10: every record has isAssigned, and it is false.
C10_NeverAssigned ==
    \A l \in Produced : "isAssigned" \in DOMAIN l /\ l.isAssigned = FALSE

C10_Witness ==
    /\ pc = "returned"
    /\ LastLead.client # ""
    /\ LastLead.isAssigned = FALSE

\* C7: the record a call returns has 0 to 3 comments, each with a text and a
\* createdAt, and each createdAt is no later than the clock when the call
\* returns and no more than 30 days before the clock when it was entered.
C7_Comments ==
    Len(leads) > 0 =>
      LET cs == LastLead.comments IN
        /\ Len(cs) \in 0..3
        /\ \A i \in 1..Len(cs) :
             /\ DOMAIN cs[i] = {"text", "createdAt"}
             /\ Len(cs[i].text) > 0
             /\ ymd2ord(cs[i].createdAt) <= clock
             /\ ymd2ord(cs[i].createdAt) >= t_call - 30

C7_Witness ==
    /\ pc = "returned"
    /\ Len(LastLead.comments) = 3
    /\ ymd2ord(LastLead.comments[1].createdAt) = t_call - 30
    /\ ymd2ord(LastLead.comments[3].createdAt) = clock
    /\ clock = t_call + 1

\* C8: in the record a call returns, createdAt is within the 365 days before
\* generation time, and for ftd and filler records dob is at least 20 and at
\* most 70 calendar years before generation time.
C8_CreatedAndDob ==
    Len(leads) > 0 =>
      /\ ymd2ord(LastLead.createdAt) <= clock
      /\ ymd2ord(LastLead.createdAt) >= t_call - 365
      /\ LastLead.leadType \in {"ftd", "filler"} =>
           /\ AtLeastYearsBefore(LastLead.dob, 20, ord2ymd(clock))
           /\ AtMostYearsBefore(LastLead.dob, 70, ord2ymd(t_call))

---------------------------------------------------------------------------
(* Properties of a run *)

BaseFields == {"firstName", "lastName", "newEmail", "newPhone", "country",
               "leadType", "status", "priority", "source", "createdAt"}

\* the count on the command line is negative, or is no integer
BadCount == ~IsIntLiteral(argv) \/ int(argv) < 0

\* C3: a run given a negative or non-integer count never creates or changes
\* the file at the output path, and ends with an error reported and a
\* non-zero exit status.
C3_BadCountRejected ==
    BadCount =>
      /\ fs[output_file] = fs0[output_file]
      /\ pc = "exit" => (exit_code # 0 /\ Len(stderr) > 0)

\* C4: when a run for N >= 0 leads ends successfully, the output file holds
\* an array of exactly N objects, each with the base fields.
C4_ArrayOfN ==
    (pc = "exit" /\ exit_code = 0 /\ num_leads >= 0) =>
      /\ fs[output_file].exists
      /\ LET doc == json_load(fs[output_file].data) IN
           /\ doc.ok
           /\ Len(doc.value) = num_leads
           /\ \A i \in 1..Len(doc.value) : BaseFields \subseteq DOMAIN doc.value[i]

C4_Witness ==
    /\ pc = "exit"
    /\ exit_code = 0
    /\ num_leads = 2
    /\ Len(json_load(fs[output_file].data).value) = 2

\* the run was given the count 0
CountZero == pc # "main" /\ IsIntLiteral(argv) /\ int(argv) = 0

\* C5: a run for 0 leads generates no record and meets no argument or
\* generation error; unless the file system fails it, it ends with status 0
\* and the output file holds a valid empty array.
C5_ZeroLeads ==
    CountZero =>
      /\ leads = <<>>
      /\ exit_code # 2
      /\ ~Contains(stderr, "Traceback: generate_lead")
      /\ (pc = "exit" /\ ~Contains(stderr, "Traceback: OSError")) =>
           /\ exit_code = 0
           /\ fs[output_file].exists
           /\ json_load(fs[output_file].data) = [ok |-> TRUE, value |-> <<>>]

C5_Witness ==
    /\ CountZero
    /\ pc = "exit"
    /\ exit_code = 0
    /\ fs0[output_file].exists
    /\ fs[output_file].data = <<LBracket, RBracket>>

\* C6: when a sub-generator has failed the output file was never opened and
\* the file system is as it was; and the output file is opened, or differs
\* from what it was, only once all the records have been generated.
C6_AllOrNothing ==
    /\ Contains(stderr, "Traceback: generate_lead") => (fh = "none" /\ fs = fs0)
    /\ (fh # "none" \/ fs # fs0) => Len(leads) = range_len(num_leads)

C6_Witness ==
    /\ Contains(stderr, "Traceback: generate_lead")
    /\ num_leads = 2
    /\ Len(leads) = 1
    /\ fs0[output_file].exists
    /\ fs = fs0

\* C9: the summary is printed only with the file written and closed; after
\* a successful run the output file holds the document and nothing else,
\* and every other file is as it was.
C9_OneFileWritten ==
    /\ Len(stdout) > 0 =>
         (fh = "closed" /\ fs[output_file] = File(json_dump(leads)))
    /\ (pc = "exit" /\ exit_code = 0) =>
         /\ Len(stdout) = 1
         /\ fs[output_file] = File(json_dump(leads))
         /\ \A p \in Paths \ {output_file} : fs[p] = fs0[p]

C9_Witness ==
    /\ pc = "exit"
    /\ exit_code = 0
    /\ fs0[output_file].exists
    /\ Len(leads) = 1
    /\ fs[output_file].data = <<LBracket, Object(leads[1]), RBracket>>

====
